---- MODULE Spec2Model ----
(***************************************************************************)
(* Model of the scoring core of financial_telegram_monitor:                *)
(*   fraud_detection/anomaly_detection.py  (AnomalyDetector)               *)
(*   src/api/core/risk_analyzer.py         (RiskAnalyzer)                  *)
(*                                                                         *)
(* A text is a sequence of whitespace-separated words.  A regular          *)
(* expression of the pattern tables is matched word by word: a literal     *)
(* pattern such as 'limited time' is a run of consecutive words, and a     *)
(* pattern 'a.*b' is the word a followed, on the same line, by the word b. *)
(* Reals are scaled to integers: rule scores and weights in tenths,        *)
(* anomaly scores in tenths.                                               *)
(***************************************************************************)
EXTENDS Integers, Sequences, FiniteSets, TLC

(***************************************************************************)
(* Bounds of the model.                                                    *)
(***************************************************************************)
\* training batches have 0 .. MinTrain + ExtraTrain messages
ExtraTrain == 1
\* detect_anomalies is called with at most MaxDetect messages
MaxDetect == 3
\* extract_features is called alone with at most MaxRows messages
MaxRows == 3
\* a text given to the rule analyzer has at most MaxWords words
MaxWords == 3
\* a channel has 0 or MinChannel - 1 .. MinChannel + ExtraChannel messages
ExtraChannel == 1
\* the level functions are given the scores -MaxScore .. MaxScore, in tenths
MaxScore == 20
\* longest stored file, in records
MaxRecords == 2
\* largest 'limit' requested
MaxLimit == 2

(***************************************************************************)
(* Program constants.                                                      *)
(***************************************************************************)
\* train: if len(messages) < 10
MinTrain == 10
\* feature_dict['hour'] = 12  # Default
DefaultHour == 12
\* feature_dict['day_of_week'] = 1
DefaultDay == 1
\* feature_dict['is_weekend'] = 0
DefaultWeekend == 0
\* int(msg_time.weekday() >= 5)
WeekendFrom == 5
\* analyze_channel_behavior: if len(messages) < 5: continue
MinChannel == 5
\* analyze_channel_behavior: [:3]
TopN == 3

\* a missing cell of the feature table (numpy.nan): a value no feature takes
NaN == 0 - 1

(***************************************************************************)
(* Sequence helpers.                                                       *)
(***************************************************************************)
Range(s) == {s[i] : i \in 1..Len(s)}

RECURSIVE SumSeq(_)
SumSeq(s) == IF s = <<>> THEN 0 ELSE Head(s) + SumSeq(Tail(s))

Min2(a, b) == IF a <= b THEN a ELSE b

\* dict.get(key, default)
Get(d, k, default) == IF k \in DOMAIN d THEN d[k] ELSE default

(***************************************************************************)
(* str.lower(): the vocabulary's words with capitals, and their lower case *)
(***************************************************************************)
Lower(w) ==
  CASE w = "URGENT" -> "urgent"
    [] w = "Guaranteed" -> "guaranteed"
    [] w = "WhatsApp" -> "whatsapp"
    [] w = "Aspirin" -> "aspirin"
    [] OTHER -> w

LowerText(text) == [i \in 1..Len(text) |-> Lower(text[i])]

\* text.count('!'): the exclamation marks a word carries
Bangs(w) == CASE w = "!!!" -> 3 [] w = "now!" -> 1 [] OTHER -> 0

exclamation_count(text) == SumSeq([i \in 1..Len(text) |-> Bangs(text[i])])

(***************************************************************************)
(* AnomalyDetector.suspicious_patterns, in dict (insertion) order.  Each   *)
(* pattern is a literal: the run of words it is made of.                   *)
(***************************************************************************)
suspicious_categories ==
  << "urgency", "financial_promises", "contact_pressure", "medical_claims",
     "price_manipulation" >>

suspicious_patterns ==
  [ urgency |-> << <<"urgent">>, <<"limited", "time">>, <<"act", "now">>,
                   <<"expires", "soon">> >>,
    financial_promises |-> << <<"guaranteed">>, <<"100%">>, <<"risk", "free">>,
                              <<"instant", "profit">> >>,
    contact_pressure |-> << <<"dm", "me">>, <<"private", "message">>,
                            <<"whatsapp">>, <<"call", "now">> >>,
    medical_claims |-> << <<"miracle", "cure">>, <<"instant", "healing">>,
                          <<"100%", "effective">> >>,
    price_manipulation |-> << <<"special", "price">>, <<"discount">>,
                              <<"50%", "off">>, <<"limited", "offer">> >> ]

\* the literal pattern p occurs in text at word position i
MatchAt(p, text, i) ==
  /\ i + Len(p) - 1 <= Len(text)
  /\ \A k \in 1..Len(p) : text[i + k - 1] = p[k]

\* len(re.findall(pattern, text)): non-overlapping occurrences, left to right
RECURSIVE FindallFrom(_, _, _)
FindallFrom(p, text, i) ==
  IF i > Len(text) THEN 0
  ELSE IF MatchAt(p, text, i) THEN 1 + FindallFrom(p, text, i + Len(p))
  ELSE FindallFrom(p, text, i + 1)

findall_count(p, text) == FindallFrom(p, text, 1)

\* re.search(pattern, text) is not None
search_literal(p, text) == \E i \in 1..Len(text) : MatchAt(p, text, i)

\* faulty variant: the feature is the presence of the category, 0 or 1
category_presence(category, text) ==
  LET ps == suspicious_patterns[category]
  IN IF \E k \in 1..Len(ps) : search_literal(ps[k], LowerText(text)) THEN 1 ELSE 0

\* feature_dict[f'{category}_score'] = sum(len(re.findall(p, text.lower())) ...)
category_score(category, text) ==
  LET ps == suspicious_patterns[category]
  IN SumSeq([k \in 1..Len(ps) |-> findall_count(ps[k], LowerText(text))])

\* faulty variant: the inner loop without its 'break'
RECURSIVE IdentifyEveryMatch(_, _)
IdentifyEveryMatch(k, text_lower) ==
  IF k > Len(suspicious_categories) THEN <<>>
  ELSE LET category == suspicious_categories[k]
           ps == suspicious_patterns[category]
           hits == Cardinality({j \in 1..Len(ps) : search_literal(ps[j], text_lower)})
       IN [i \in 1..hits |-> category] \o IdentifyEveryMatch(k + 1, text_lower)

\* AnomalyDetector._identify_patterns
RECURSIVE IdentifyFrom(_, _)
IdentifyFrom(k, text_lower) ==
  IF k > Len(suspicious_categories) THEN <<>>
  ELSE LET category == suspicious_categories[k]
           ps == suspicious_patterns[category]
           hit == \E j \in 1..Len(ps) : search_literal(ps[j], text_lower)
       IN (IF hit THEN <<category>> ELSE <<>>) \o IdentifyFrom(k + 1, text_lower)

identify_patterns(text) == IdentifyFrom(1, LowerText(text))

(***************************************************************************)
(* Messages.  A message is a dict: a record whose optional keys ('id',     *)
(* 'date', 'has_media', ...) may be absent.  The value of 'date' is either *)
(* an ISO-8601 string, modelled by the day (days since 1970-01-01) and the *)
(* hour it denotes, or a value datetime.fromisoformat rejects.             *)
(***************************************************************************)
IsoDate(days, hour) == [iso |-> TRUE, days |-> days, hour |-> hour]
\* 'not-a-date'
BadDate == [iso |-> FALSE, text |-> "not-a-date"]
\* msg.get('date', '')
NoDate == [iso |-> FALSE, text |-> ""]

\* datetime.weekday(): Monday is 0; 1970-01-01 was a Thursday
weekday(d) == (d.days + 3) % 7

\* '2024-01-01T12:00:00Z', a Monday
Monday12 == IsoDate(19723, 12)
\* '2024-01-06T23:00:00Z', a Saturday
Saturday23 == IsoDate(19728, 23)
\* '2024-01-07T00:00:00Z', a Sunday
Sunday0 == IsoDate(19729, 0)

MsgA == [text |-> <<"hello", "aspirin">>, channel |-> "@a", date |-> Monday12,
         has_media |-> FALSE]
MsgB == [id |-> 201, text |-> <<"URGENT", "urgent", "guaranteed">>,
         channel |-> "@b", date |-> Saturday23, has_media |-> TRUE]
MsgC == [text |-> <<"hello">>, channel |-> "@a"]
MsgD == [text |-> <<>>, date |-> BadDate]
MsgE == [text |-> <<"limited", "time", "!!!">>, date |-> Sunday0]
MsgF == [id |-> 206, text |-> <<"whatsapp", "discount">>, channel |-> "@b",
         date |-> Monday12]

(***************************************************************************)
(* AnomalyDetector.extract_features.  The columns kept are the word-level  *)
(* ones; the character-level columns (text_length, caps_ratio, ...) are    *)
(* always present and never missing, like word_count.                      *)
(***************************************************************************)
BaseColumns ==
  << "word_count", "exclamation_count", "has_media", "urgency_score",
     "financial_promises_score", "contact_pressure_score",
     "medical_claims_score", "price_manipulation_score" >>

TimeColumns == << "hour", "day_of_week", "is_weekend" >>

\* the 'try' block of extract_features: the parsed fields, or the defaults
\* of the bare 'except'
time_features(date) ==
  IF date.iso
  THEN [hour |-> date.hour, day_of_week |-> weekday(date),
        is_weekend |-> IF weekday(date) >= WeekendFrom THEN 1 ELSE 0]
  ELSE [hour |-> DefaultHour, day_of_week |-> DefaultDay,
        is_weekend |-> DefaultWeekend]

\* if 'date' in msg: ...   (no else branch)
has_time_features(msg) == "date" \in DOMAIN msg

feature_dict(msg) ==
  LET text == Get(msg, "text", <<>>)
      base == [word_count |-> Len(text),
               exclamation_count |-> exclamation_count(text),
               has_media |-> IF Get(msg, "has_media", FALSE) THEN 1 ELSE 0,
               urgency_score |-> category_score("urgency", text),
               financial_promises_score |-> category_score("financial_promises", text),
               contact_pressure_score |-> category_score("contact_pressure", text),
               medical_claims_score |-> category_score("medical_claims", text),
               price_manipulation_score |-> category_score("price_manipulation", text)]
  IN IF has_time_features(msg) THEN base @@ time_features(msg.date) ELSE base

\* pd.DataFrame(features): the columns are the keys in order of first
\* appearance, and a key a row lacks is NaN in that row
DataFrame(features) ==
  LET columns == IF features = <<>> THEN <<>>
                 ELSE IF \E i \in 1..Len(features) : "hour" \in DOMAIN features[i]
                      THEN BaseColumns \o TimeColumns
                      ELSE BaseColumns
  IN [columns |-> columns,
      rows |-> [i \in 1..Len(features) |->
                  [c \in Range(columns) |-> Get(features[i], c, NaN)]]]

\* every message of the model, and its feature_dict
Messages == {MsgA, MsgB, MsgC, MsgD, MsgE, MsgF}

FeatureDicts == [m \in Messages |-> feature_dict(m)]

extract_features(messages) ==
  DataFrame([i \in 1..Len(messages) |-> FeatureDicts[messages[i]]])

HasNaN(rows) == \E i \in 1..Len(rows) : \E c \in DOMAIN rows[i] : rows[i][c] = NaN

(***************************************************************************)
(* The scikit-learn estimators the detector owns.  A fitted StandardScaler *)
(* holds, per column, the count, the sum and the sum of squares of the     *)
(* cells it saw (its n_samples_seen_, mean_ and var_ are functions of      *)
(* them).  A normalised row is a row together with the parameters it was   *)
(* normalised by.  A fitted IsolationForest (random_state=42) is           *)
(* determined by the normalised rows it was fitted on.                     *)
(***************************************************************************)
Unfitted == [fitted |-> FALSE]

ColumnStats(rows, c) ==
  LET cells == [i \in 1..Len(rows) |-> rows[i][c]]
      seen == {i \in 1..Len(rows) : cells[i] # NaN}
  IN [n |-> Cardinality(seen),
      sum |-> SumSeq([i \in 1..Len(rows) |-> IF i \in seen THEN cells[i] ELSE 0]),
      sumsq |-> SumSeq([i \in 1..Len(rows) |->
                          IF i \in seen THEN cells[i] * cells[i] ELSE 0])]

\* StandardScaler.fit: NaN cells are ignored, the column names are recorded
scaler_fit(df) ==
  [fitted |-> TRUE, feature_names |-> df.columns,
   stats |-> [c \in Range(df.columns) |-> ColumnStats(df.rows, c)]]

\* StandardScaler.transform: the rows, normalised by the scaler's parameters
scaler_transform(sc, df) ==
  [by |-> sc.stats, n_features |-> Len(df.columns), rows |-> df.rows]

\* validate_data(reset=False) of transform: an unfitted estimator, an empty
\* table or columns other than those seen in fit raise
scaler_rejects(sc, df) ==
  \/ ~sc.fitted
  \/ df.rows = <<>>
  \/ df.columns # sc.feature_names

\* IsolationForest.fit
forest_fit(X) ==
  [fitted |-> TRUE, n_features |-> X.n_features, by |-> X.by, n |-> Len(X.rows),
   seen |-> [r \in Range(X.rows) |->
               Cardinality({k \in 1..Len(X.rows) : X.rows[k] = r})]]

\* IsolationForest validates its input with NaN not allowed
forest_rejects_nan(X) == HasNaN(X.rows)

\* faulty variant: the forest takes a table of any width
forest_rejects_unfitted_only(forest, X) == ~forest.fitted

\* validate_data(reset=False) of decision_function and predict: the number
\* of features must be the one seen in fit
forest_rejects_shape(forest, X) ==
  \/ ~forest.fitted
  \/ X.n_features # forest.n_features

\* how often the normalised row occurs in the table the forest was fitted on
Frequency(forest, X, i) ==
  IF X.by # forest.by THEN 0
  ELSE IF X.rows[i] \in DOMAIN forest.seen THEN forest.seen[X.rows[i]]
  ELSE 0

\* IsolationForest.decision_function, in tenths: the rarer a row is among
\* the training rows the sooner it is isolated and the lower its score, and
\* contamination=0.1 puts the rarest tenth of the training rows below zero
decision_function(forest, X) ==
  [i \in 1..Len(X.rows) |->
     LET f == Frequency(forest, X, i)
         n == forest.n
     IN IF f = 0 THEN 0 - 3
        ELSE IF 10 * f <= n THEN 0 - 2
        ELSE IF 5 * f <= n THEN 0 - 1
        ELSE IF 2 * f < n THEN 0
        ELSE 1]

\* faulty variant: only the scores below -0.2 are labelled -1
predict_below_high(forest, X) ==
  [i \in 1..Len(X.rows) |-> IF decision_function(forest, X)[i] < 0 - 2 THEN 0 - 1 ELSE 1]

\* IsolationForest.predict: -1 where decision_function < 0, else 1
predict(forest, X) ==
  [i \in 1..Len(X.rows) |-> IF decision_function(forest, X)[i] < 0 THEN 0 - 1 ELSE 1]

\* TfidfVectorizer.fit_transform raises 'empty vocabulary' when no text
\* holds a word
empty_vocabulary(texts) == \A i \in 1..Len(texts) : texts[i] = <<>>

\* faulty variant: the thresholds belong to the level below them
anomaly_risk_level_inclusive(score) ==
  IF score <= 0 - 2 THEN "HIGH"
  ELSE IF score <= 0 THEN "MEDIUM"
  ELSE "LOW"

\* AnomalyDetector._get_risk_level (score in tenths)
anomaly_risk_level(score) ==
  IF score < 0 - 2 THEN "HIGH"
  ELSE IF score < 0 THEN "MEDIUM"
  ELSE "LOW"

\* faulty variant: a sort that is not stable (equal scores end in reverse order)
RECURSIVE InsertBeforeTies(_, _)
InsertBeforeTies(x, sorted) ==
  IF sorted = <<>> THEN <<x>>
  ELSE IF x.anomaly_score <= Head(sorted).anomaly_score THEN <<x>> \o sorted
  ELSE <<Head(sorted)>> \o InsertBeforeTies(x, Tail(sorted))

\* list.sort(key=lambda x: x['anomaly_score']): stable, ascending
RECURSIVE InsertByScore(_, _)
InsertByScore(x, sorted) ==
  IF sorted = <<>> THEN <<x>>
  ELSE IF x.anomaly_score < Head(sorted).anomaly_score THEN <<x>> \o sorted
  ELSE <<Head(sorted)>> \o InsertByScore(x, Tail(sorted))

RECURSIVE SortPrefix(_, _)
SortPrefix(results, n) ==
  IF n = 0 THEN <<>> ELSE InsertByScore(results[n], SortPrefix(results, n - 1))

sort_by_score(results) == SortPrefix(results, Len(results))

\* the loop of detect_anomalies that builds one result per message
build_results(messages, anomaly_scores, anomaly_labels) ==
  [i \in 1..Len(messages) |->
     [message_id |-> Get(messages[i], "id", i - 1),
      text |-> Get(messages[i], "text", <<>>),
      channel |-> Get(messages[i], "channel", "unknown"),
      date |-> Get(messages[i], "date", NoDate),
      anomaly_score |-> anomaly_scores[i],
      is_anomaly |-> (anomaly_labels[i] = 0 - 1),
      risk_level |-> anomaly_risk_level(anomaly_scores[i]),
      suspicious_patterns |-> identify_patterns(Get(messages[i], "text", <<>>))]]

(***************************************************************************)
(* RiskAnalyzer.  risk_patterns in dict order; a pattern 'a.*b' is the     *)
(* pair of words <<a, b>>, a one-word pattern the word alone.  Weights are *)
(* in tenths.                                                              *)
(***************************************************************************)
risk_categories ==
  << "guaranteed_returns", "urgency_pressure", "unrealistic_claims",
     "contact_requests", "price_manipulation" >>

\* faulty variant: unrealistic_claims weighs 0.6
risk_patterns_light ==
  [ guaranteed_returns |->
      [patterns |-> << <<"guaranteed", "return">>, <<"100%", "profit">>,
                       <<"risk", "free">> >>,
       weight |-> 8],
    urgency_pressure |->
      [patterns |-> << <<"limited", "time">>, <<"act", "now">>, <<"hurry">>,
                       <<"expires", "soon">> >>,
       weight |-> 6],
    unrealistic_claims |->
      [patterns |-> << <<"miracle", "cure">>, <<"instant", "results">>,
                       <<"amazing", "results">> >>,
       weight |-> 6],
    contact_requests |->
      [patterns |-> << <<"dm", "me">>, <<"private", "message">>, <<"whatsapp">>,
                       <<"telegram", "@">> >>,
       weight |-> 5],
    price_manipulation |->
      [patterns |-> << <<"special", "price">>, <<"discount", "today">>,
                       <<"50%", "off">> >>,
       weight |-> 4] ]

risk_patterns ==
  [ guaranteed_returns |->
      [patterns |-> << <<"guaranteed", "return">>, <<"100%", "profit">>,
                       <<"risk", "free">> >>,
       weight |-> 8],
    urgency_pressure |->
      [patterns |-> << <<"limited", "time">>, <<"act", "now">>, <<"hurry">>,
                       <<"expires", "soon">> >>,
       weight |-> 6],
    unrealistic_claims |->
      [patterns |-> << <<"miracle", "cure">>, <<"instant", "results">>,
                       <<"amazing", "results">> >>,
       weight |-> 7],
    contact_requests |->
      [patterns |-> << <<"dm", "me">>, <<"private", "message">>, <<"whatsapp">>,
                       <<"telegram", "@">> >>,
       weight |-> 5],
    price_manipulation |->
      [patterns |-> << <<"special", "price">>, <<"discount", "today">>,
                       <<"50%", "off">> >>,
       weight |-> 4] ]

medical_products ==
  << "paracetamol", "ibuprofen", "aspirin", "antibiotic", "vaccine", "insulin",
     "cream", "pills", "tablets", "capsules", "syrup", "injection", "medicine",
     "drug", "pharmaceutical" >>

\* category.replace('_', ' ').title()
Title(category) ==
  CASE category = "guaranteed_returns" -> "Guaranteed Returns"
    [] category = "urgency_pressure" -> "Urgency Pressure"
    [] category = "unrealistic_claims" -> "Unrealistic Claims"
    [] category = "contact_requests" -> "Contact Requests"
    [] category = "price_manipulation" -> "Price Manipulation"

\* re.search(r'a.*b', text): a, then b later on the same line ('.' matches
\* no line break); re.search(r'a', text): a anywhere
search_pattern(p, text) ==
  IF Len(p) = 1 THEN \E i \in 1..Len(text) : text[i] = p[1]
  ELSE \E i \in 1..Len(text) : \E j \in (i + 1)..Len(text) :
         /\ text[i] = p[1]
         /\ text[j] = p[2]
         /\ \A k \in i..j : text[k] # "\n"

\* faulty variant: the inner loop without its 'break'
times_counted_without_break(category, text_lower) ==
  LET ps == risk_patterns[category].patterns
  IN Cardinality({j \in 1..Len(ps) : search_pattern(ps[j], text_lower)})

\* the inner loop of calculate_risk_score: how often the category's weight
\* is added (once, at the first pattern that matches: 'break')
times_counted(category, text_lower) ==
  LET ps == risk_patterns[category].patterns
  IN IF \E j \in 1..Len(ps) : search_pattern(ps[j], text_lower) THEN 1 ELSE 0

\* the outer loop of calculate_risk_score, from the k-th category on
RECURSIVE RiskFrom(_, _)
RiskFrom(k, text_lower) ==
  IF k > Len(risk_categories) THEN [total_risk |-> 0, risk_factors |-> <<>>]
  ELSE LET category == risk_categories[k]
           n == times_counted(category, text_lower)
           rest == RiskFrom(k + 1, text_lower)
       IN [total_risk |-> n * risk_patterns[category].weight + rest.total_risk,
           risk_factors |-> [i \in 1..n |-> Title(category)] \o rest.risk_factors]

\* the keywords of medical_products that are substrings of a lower-case
\* word: the word itself when it is a keyword, and 'drug' in 'drugstore'
\* (no keyword holds white space, none is a substring of another)
keywords_in(word) ==
  IF word = "drugstore" THEN {"drug"}
  ELSE {product \in Range(medical_products) : product = word}

\* faulty variant: a keyword is found only as a whole word
product_is_word(product, text_lower) ==
  \E i \in 1..Len(text_lower) : text_lower[i] = product

\* if product in text_lower   (str.__contains__: a substring test)
product_in(product, text_lower) ==
  \E i \in 1..Len(text_lower) : product \in keywords_in(text_lower[i])

\* RiskAnalyzer.calculate_risk_score
calculate_risk_score(text) ==
  LET text_lower == LowerText(text)
      risk == RiskFrom(1, text_lower)
  IN [risk_score |-> Min2(risk.total_risk, 10),
      detected_products |->
        SelectSeq(medical_products, LAMBDA product : product_in(product, text_lower)),
      risk_factors |-> risk.risk_factors]

\* faulty variant: the thresholds belong to the level below them
get_risk_level_strict(risk_score) ==
  IF risk_score > 7 THEN "HIGH"
  ELSE IF risk_score > 4 THEN "MEDIUM"
  ELSE "LOW"

\* RiskAnalyzer.get_risk_level (score in tenths)
get_risk_level(risk_score) ==
  IF risk_score >= 7 THEN "HIGH"
  ELSE IF risk_score >= 4 THEN "MEDIUM"
  ELSE "LOW"

\* faulty variant: the confidence is not capped
analyze_message_uncapped(text, channel, now) ==
  LET r == calculate_risk_score(text)
  IN [risk_score |-> r.risk_score,
      risk_level |-> get_risk_level(r.risk_score),
      detected_products |-> r.detected_products,
      risk_factors |-> r.risk_factors,
      confidence |-> r.risk_score + 1,
      channel |-> channel,
      analyzed_at |-> now]

\* faulty variant: the analysis carries an anomaly score defaulted to zero
analyze_message_with_anomaly(text, channel, now) ==
  LET r == calculate_risk_score(text)
  IN [risk_score |-> r.risk_score,
      risk_level |-> get_risk_level(r.risk_score),
      detected_products |-> r.detected_products,
      risk_factors |-> r.risk_factors,
      confidence |-> Min2(9, r.risk_score + 1),
      channel |-> channel,
      analyzed_at |-> now,
      anomaly_score |-> 0]

\* RiskAnalyzer.analyze_message; now is datetime.now().isoformat()
analyze_message(text, channel, now) ==
  LET r == calculate_risk_score(text)
  IN [risk_score |-> r.risk_score,
      risk_level |-> get_risk_level(r.risk_score),
      detected_products |-> r.detected_products,
      risk_factors |-> r.risk_factors,
      confidence |-> Min2(9, r.risk_score + 1),
      channel |-> channel,
      analyzed_at |-> now]

(***************************************************************************)
(* AnomalyDetector.train, statement by statement.  Each statement maps the *)
(* detector's fields (self) and the call's locals to the statement to run  *)
(* next (pc), the fields and locals after it, and how the call ended (out, *)
(* "none" while it runs).  Every error train raises is a ValueError; out   *)
(* names the statement that raised it.                                     *)
(***************************************************************************)
NoLocals == [none |-> TRUE]

\* faulty variant: the size check off by one
too_few_off_by_one(messages) == Len(messages) < MinTrain - 1

\* if len(messages) < 10: raise ValueError
too_few(messages) == Len(messages) < MinTrain

\* the size check and feature_df = self.extract_features(messages)
train_call(self, messages) ==
  IF too_few(messages)
  THEN [pc |-> "idle", self |-> self, loc |-> NoLocals, out |-> "InsufficientData"]
  ELSE [pc |-> "vectorizer", self |-> self, out |-> "none",
        loc |-> [messages |-> messages, feature_df |-> extract_features(messages)]]

\* tfidf_features = self.vectorizer.fit_transform(texts)
train_vectorizer(self, loc) ==
  LET texts == [i \in 1..Len(loc.messages) |-> Get(loc.messages[i], "text", <<>>)]
  IN IF empty_vocabulary(texts)
     THEN [pc |-> "idle", self |-> self, loc |-> NoLocals, out |-> "EmptyVocabulary"]
     ELSE [pc |-> "scaler", loc |-> loc, out |-> "none",
           self |-> [self EXCEPT !.vectorizer =
                       [fitted |-> TRUE,
                        vocabulary |-> UNION {Range(LowerText(texts[i])) :
                                                i \in 1..Len(texts)}]]]

\* faulty variant: the flag is set as soon as the scaler is fitted
train_scaler_sets_flag(self, loc) ==
  LET fitted == scaler_fit(loc.feature_df)
  IN [pc |-> "forest", out |-> "none",
      self |-> [self EXCEPT !.scaler = fitted, !.is_trained = TRUE],
      loc |-> [messages |-> loc.messages, feature_df |-> loc.feature_df,
               numerical_features |-> scaler_transform(fitted, loc.feature_df)]]

\* numerical_features = self.scaler.fit_transform(feature_df)
train_scaler(self, loc) ==
  LET fitted == scaler_fit(loc.feature_df)
  IN [pc |-> "forest", out |-> "none",
      self |-> [self EXCEPT !.scaler = fitted],
      loc |-> [messages |-> loc.messages, feature_df |-> loc.feature_df,
               numerical_features |-> scaler_transform(fitted, loc.feature_df)]]

\* self.isolation_forest.fit(numerical_features)
train_forest(self, loc) ==
  IF forest_rejects_nan(loc.numerical_features)
  THEN [pc |-> "idle", self |-> self, loc |-> NoLocals, out |-> "NaNInput"]
  ELSE [pc |-> "flag", loc |-> loc, out |-> "none",
        self |-> [self EXCEPT !.isolation_forest = forest_fit(loc.numerical_features)]]

\* self.is_trained = True, and the return
train_flag(self, loc) ==
  [pc |-> "idle", loc |-> NoLocals, out |-> "ok",
   self |-> [self EXCEPT !.is_trained = TRUE]]

train_step(pc, self, loc) ==
  CASE pc = "vectorizer" -> train_vectorizer(self, loc)
    [] pc = "scaler" -> train_scaler(self, loc)
    [] pc = "forest" -> train_forest(self, loc)
    [] pc = "flag" -> train_flag(self, loc)

RECURSIVE train_run(_)
train_run(f) == IF f.pc = "idle" THEN f ELSE train_run(train_step(f.pc, f.self, f.loc))

\* one whole call of train
train(self, messages) == train_run(train_call(self, messages))

(***************************************************************************)
(* AnomalyDetector.detect_anomalies, statement by statement.  It writes no *)
(* field; each statement reads the fields as they are when it runs.        *)
(***************************************************************************)
NoCall == [status |-> "none"]

Failed(status) == [status |-> status, results |-> <<>>]

\* faulty variant: the check looks at the scaler instead of the flag
not_trained_by_scaler(self) == ~self.scaler.fitted

\* if not self.is_trained: raise ValueError
not_trained(self) == ~self.is_trained

\* the trained check and feature_df = self.extract_features(messages)
detect_call(self, messages) ==
  IF not_trained(self)
  THEN [pc |-> "idle", loc |-> NoLocals, out |-> Failed("NotTrained")]
  ELSE [pc |-> "scale", out |-> NoCall,
        loc |-> [messages |-> messages, feature_df |-> extract_features(messages)]]

\* numerical_features = self.scaler.transform(feature_df)
detect_scale(self, loc) ==
  IF scaler_rejects(self.scaler, loc.feature_df)
  THEN [pc |-> "idle", loc |-> NoLocals, out |-> Failed("SchemaMismatch")]
  ELSE [pc |-> "score", out |-> NoCall,
        loc |-> [messages |-> loc.messages,
                 numerical_features |-> scaler_transform(self.scaler, loc.feature_df)]]

\* anomaly_scores = self.isolation_forest.decision_function(numerical_features)
detect_score(self, loc) ==
  IF forest_rejects_nan(loc.numerical_features)
  THEN [pc |-> "idle", loc |-> NoLocals, out |-> Failed("NaNInput")]
  ELSE IF forest_rejects_shape(self.isolation_forest, loc.numerical_features)
  THEN [pc |-> "idle", loc |-> NoLocals, out |-> Failed("SchemaMismatch")]
  ELSE [pc |-> "predict", out |-> NoCall,
        loc |-> [messages |-> loc.messages,
                 numerical_features |-> loc.numerical_features,
                 anomaly_scores |->
                   decision_function(self.isolation_forest, loc.numerical_features),
                 scored_by |-> self.isolation_forest.by]]

\* anomaly_labels = self.isolation_forest.predict(numerical_features), the
\* loop that builds the results, results.sort(...) and the return.  The
\* result also records the fits it was computed with (scaled_by, scored_by,
\* labelled_by) and the table it was computed from.
detect_predict(self, loc) ==
  IF forest_rejects_shape(self.isolation_forest, loc.numerical_features)
  THEN [pc |-> "idle", loc |-> NoLocals, out |-> Failed("SchemaMismatch")]
  ELSE [pc |-> "idle", loc |-> NoLocals,
        out |-> [status |-> "ok",
                 results |-> sort_by_score(
                   build_results(loc.messages, loc.anomaly_scores,
                                 predict(self.isolation_forest, loc.numerical_features))),
                 scaled_by |-> loc.numerical_features.by,
                 scored_by |-> loc.scored_by,
                 labelled_by |-> self.isolation_forest.by]]

detect_step(pc, self, loc) ==
  CASE pc = "scale" -> detect_scale(self, loc)
    [] pc = "score" -> detect_score(self, loc)
    [] pc = "predict" -> detect_predict(self, loc)

RECURSIVE detect_run(_, _)
detect_run(self, f) ==
  IF f.pc = "idle" THEN f ELSE detect_run(self, detect_step(f.pc, self, f.loc))

\* one whole call of detect_anomalies, with no other thread running
detect_anomalies(self, messages) == detect_run(self, detect_call(self, messages))

\* faulty variant: the scaling statement fits the scaler (fit_transform)
detect_refits_scaler(pc, self, loc) ==
  IF pc = "scale" /\ self.is_trained /\ loc.feature_df.rows # <<>>
  THEN [self EXCEPT !.scaler = scaler_fit(loc.feature_df)]
  ELSE self

\* faulty variant: the call clears the trained flag when it returns
detect_clears_flag(pc, self, loc) ==
  IF pc = "predict" THEN [self EXCEPT !.is_trained = FALSE] ELSE self

\* the detector's fields after the statement at pc of detect_anomalies:
\* no statement assigns a field, and transform, decision_function and
\* predict leave their estimator as fitted
detect_writes(pc, self, loc) == self

(***************************************************************************)
(* AnomalyDetector.analyze_channel_behavior.  channel_messages is a dict:  *)
(* the sequence of its items <<channel, messages>>, keys distinct.  A      *)
(* quotient is kept as its numerator and denominator.                      *)
(***************************************************************************)
\* pattern_counts[pattern] = pattern_counts.get(pattern, 0) + 1, on a dict
\* kept as the sequence of its items in insertion order
count_pattern(pattern_counts, pattern) ==
  IF \E i \in 1..Len(pattern_counts) : pattern_counts[i][1] = pattern
  THEN [i \in 1..Len(pattern_counts) |->
          IF pattern_counts[i][1] = pattern
          THEN <<pattern, pattern_counts[i][2] + 1>>
          ELSE pattern_counts[i]]
  ELSE Append(pattern_counts, <<pattern, 1>>)

\* for pattern in anomaly['suspicious_patterns']: ...
RECURSIVE count_patterns_of(_, _)
count_patterns_of(pattern_counts, patterns) ==
  IF patterns = <<>> THEN pattern_counts
  ELSE count_patterns_of(count_pattern(pattern_counts, Head(patterns)), Tail(patterns))

\* for anomaly in anomalies: ...
RECURSIVE count_patterns(_, _)
count_patterns(pattern_counts, anomalies) ==
  IF anomalies = <<>> THEN pattern_counts
  ELSE count_patterns(count_patterns_of(pattern_counts, Head(anomalies).suspicious_patterns),
                      Tail(anomalies))

\* sorted(items, key=lambda x: x[1], reverse=True): stable, so items of
\* equal count keep the order they have in the dict
RECURSIVE InsertByCount(_, _)
InsertByCount(x, sorted) ==
  IF sorted = <<>> THEN <<x>>
  ELSE IF x[2] > Head(sorted)[2] THEN <<x>> \o sorted
  ELSE <<Head(sorted)>> \o InsertByCount(x, Tail(sorted))

RECURSIVE SortCounts(_, _)
SortCounts(items, n) ==
  IF n = 0 THEN <<>> ELSE InsertByCount(items[n], SortCounts(items, n - 1))

\* s[:n]
Take(s, n) == SubSeq(s, 1, Min2(n, Len(s)))

top_patterns(pattern_counts) == Take(SortCounts(pattern_counts, Len(pattern_counts)), TopN)

\* faulty variant: the last results of the list instead of the first
least_anomalous(anomalies) ==
  SubSeq(anomalies, Len(anomalies) - Min2(TopN, Len(anomalies)) + 1, Len(anomalies))

\* anomalies[:3] if anomalies else []
most_anomalous(anomalies) == IF anomalies # <<>> THEN Take(anomalies, TopN) ELSE <<>>

\* faulty variant: only the results of level HIGH are counted
anomalous_count_high(anomalies) ==
  Cardinality({i \in 1..Len(anomalies) : anomalies[i].risk_level = "HIGH"})

\* sum(1 for a in anomalies if a['is_anomaly'])
anomalous_count(anomalies) ==
  Cardinality({i \in 1..Len(anomalies) : anomalies[i].is_anomaly})

\* sum(1 for a in anomalies if a['risk_level'] == 'HIGH')
high_risk_count(anomalies) ==
  Cardinality({i \in 1..Len(anomalies) : anomalies[i].risk_level = "HIGH"})

\* the entry of one channel (lines 184-200)
channel_entry(messages, anomalies) ==
  [total_messages |-> Len(messages),
   anomalous_messages |-> anomalous_count(anomalies),
   high_risk_messages |-> high_risk_count(anomalies),
   anomaly_rate |-> [num |-> anomalous_count(anomalies), den |-> Len(messages)],
   avg_anomaly_score |->
     [num |-> SumSeq([i \in 1..Len(anomalies) |-> anomalies[i].anomaly_score]),
      den |-> Len(anomalies)],
   top_patterns |-> top_patterns(count_patterns(<<>>, anomalies)),
   most_anomalous |-> most_anomalous(anomalies)]

\* if len(messages) < 5: continue
skip_channel(messages) == Len(messages) < MinChannel

\* faulty variant: an error of detect_anomalies ends the loop, and the
\* entries made so far are returned with it
RECURSIVE ChannelsKeepingEntries(_, _, _, _)
ChannelsKeepingEntries(self, items, k, channel_analysis) ==
  IF k > Len(items) THEN [status |-> "ok", channel_analysis |-> channel_analysis]
  ELSE LET channel == items[k][1]
           messages == items[k][2]
       IN IF skip_channel(messages)
          THEN ChannelsKeepingEntries(self, items, k + 1, channel_analysis)
          ELSE LET f == detect_anomalies(self, messages)
               IN IF f.out.status # "ok"
                  THEN [status |-> f.out.status, channel_analysis |-> channel_analysis]
                  ELSE ChannelsKeepingEntries(self, items, k + 1,
                         (channel :> channel_entry(messages, f.out.results))
                           @@ channel_analysis)

\* the loop over channel_messages.items() from the k-th item on; an error
\* of detect_anomalies ends the call, and with it every entry made so far
RECURSIVE ChannelsFrom(_, _, _, _)
ChannelsFrom(self, items, k, channel_analysis) ==
  IF k > Len(items) THEN [status |-> "ok", channel_analysis |-> channel_analysis]
  ELSE LET channel == items[k][1]
           messages == items[k][2]
       IN IF skip_channel(messages)
          THEN ChannelsFrom(self, items, k + 1, channel_analysis)
          ELSE LET f == detect_anomalies(self, messages)
               IN IF f.out.status # "ok"
                  THEN [status |-> f.out.status, channel_analysis |-> <<>>]
                  ELSE ChannelsFrom(self, items, k + 1,
                         (channel :> channel_entry(messages, f.out.results))
                           @@ channel_analysis)

analyze_channel_behavior(self, channel_messages) ==
  ChannelsFrom(self, channel_messages, 1, <<>>)

(***************************************************************************)
(* State.                                                                  *)
(***************************************************************************)
VARIABLES
  is_trained,        \* self.is_trained
  vectorizer,        \* self.vectorizer
  scaler,            \* self.scaler
  isolation_forest,  \* self.isolation_forest
  ever_trained,      \* history: some train call has returned normally
  trained_schema,    \* history: the columns of the last table train succeeded on
  call,              \* the last call made by the single caller, and its outcome
  tpc,               \* the training thread: the statement to run next
  tloc,              \*   its locals
  tout,              \*   how its last call ended
  dpc,               \* the inference thread: the statement to run next
  dloc,              \*   its locals
  dout,              \*   how its last call ended
  dpre,              \* history: what held when the inference thread called
  scorers            \* the scoring threads: statement, locals, outcome, call

vars == <<is_trained, vectorizer, scaler, isolation_forest, ever_trained,
          trained_schema, call,
          tpc, tloc, tout, dpc, dloc, dout, dpre, scorers>>

threads == <<tpc, tloc, tout, dpc, dloc, dout, dpre, scorers>>

\* the threads that only score
ScorerIds == {1, 2}

IdleScorer == [pc |-> "idle", loc |-> NoLocals, out |-> NoCall, pre |-> NoLocals]

Self ==
  [is_trained |-> is_trained, vectorizer |-> vectorizer, scaler |-> scaler,
   isolation_forest |-> isolation_forest]

SelfBecomes(self) ==
  /\ is_trained' = self.is_trained
  /\ vectorizer' = self.vectorizer
  /\ scaler' = self.scaler
  /\ isolation_forest' = self.isolation_forest

\* AnomalyDetector.__init__, and no call made yet
InitDetector ==
  /\ is_trained = FALSE
  /\ vectorizer = Unfitted
  /\ scaler = Unfitted
  /\ isolation_forest = Unfitted
  /\ ever_trained = FALSE
  /\ trained_schema = <<>>
  /\ tpc = "idle" /\ tloc = NoLocals /\ tout = "none"
  /\ dpc = "idle" /\ dloc = NoLocals /\ dout = NoCall
  /\ dpre = [ever_trained |-> FALSE, consistent |-> FALSE]
  /\ scorers = [t \in ScorerIds |-> IdleScorer]

Init ==
  /\ InitDetector
  /\ call = [op |-> "none"]

\* the scaler and the forest come from the same fit
Consistent(self) ==
  /\ self.scaler.fitted
  /\ self.isolation_forest.fitted
  /\ self.isolation_forest.by = self.scaler.stats

(***************************************************************************)
(* The inputs of train and detect_anomalies.                               *)
(***************************************************************************)
\* n messages: n - 1 times base, then odd
Batch(n, base, odd) == [i \in 1..n |-> IF i = n THEN odd ELSE base]

TrainMixes == {<<MsgC, MsgC>>, <<MsgA, MsgC>>, <<MsgD, MsgD>>, <<MsgB, MsgA>>}

TrainInputs ==
  {Batch(n, MsgA, MsgB) : n \in 0..(MinTrain + ExtraTrain)}
    \cup {Batch(MinTrain, m[1], m[2]) : m \in TrainMixes}

DetectMsgs == {MsgA, MsgB, MsgC}

DetectInputs == UNION {[1..n -> DetectMsgs] : n \in 0..MaxDetect}

(***************************************************************************)
(* Spec: one caller, one call at a time.                                   *)
(***************************************************************************)
Train ==
  \E messages \in TrainInputs :
    LET f == train(Self, messages)
    IN /\ SelfBecomes(f.self)
       /\ ever_trained' = (ever_trained \/ f.out = "ok")
       /\ trained_schema' = IF f.out = "ok" THEN extract_features(messages).columns
                                            ELSE trained_schema
       /\ call' = [op |-> "train", messages |-> messages, pre |-> Self, out |-> f.out]
       /\ UNCHANGED threads

Detect ==
  \E messages \in DetectInputs :
    LET f == detect_anomalies(Self, messages)
    IN /\ call' = [op |-> "detect_anomalies", messages |-> messages,
                   pre |-> Self, ever_trained |-> ever_trained, out |-> f.out]
       /\ UNCHANGED <<is_trained, vectorizer, scaler, isolation_forest, ever_trained,
                      trained_schema, threads>>

\* the rule analyzer called beside the detector, on a few texts
SomeTexts == {<<>>, <<"hurry", "whatsapp">>, <<"hello", "aspirin">>}

Channels == {"None", "@a"}

Clock == {"2024-01-01T12:00:00", "2024-01-02T08:30:00"}

AnalyzeMessage ==
  \E text \in SomeTexts, channel \in Channels, now \in Clock :
    /\ call' = [op |-> "analyze_message", text |-> text, channel |-> channel,
                pre |-> Self, out |-> analyze_message(text, channel, now)]
    /\ UNCHANGED <<is_trained, vectorizer, scaler, isolation_forest, ever_trained,
                   trained_schema, threads>>

Next ==
  \/ Train
  \/ Detect
  \/ AnalyzeMessage

Spec == Init /\ [][Next]_vars

(***************************************************************************)
(* SpecThreads: a thread that calls train and a thread that calls          *)
(* detect_anomalies share the detector and interleave statement by         *)
(* statement.                                                              *)
(***************************************************************************)
ThreadTrainInputs == {Batch(MinTrain, MsgA, MsgB), Batch(MinTrain, MsgB, MsgA),
                      Batch(MinTrain, MsgC, MsgC), Batch(MinTrain, MsgA, MsgC)}

ThreadDetectInputs == {<<MsgA, MsgB>>, <<MsgC>>}

TrainerTakes(f) ==
  /\ SelfBecomes(f.self)
  /\ tpc' = f.pc
  /\ tloc' = f.loc
  /\ tout' = f.out
  /\ ever_trained' = (ever_trained \/ f.out = "ok")
  /\ trained_schema' = IF f.out = "ok" THEN scaler.feature_names ELSE trained_schema
  /\ UNCHANGED <<call, dpc, dloc, dout, dpre, scorers>>

TrainCall ==
  /\ tpc = "idle"
  /\ \E messages \in ThreadTrainInputs : TrainerTakes(train_call(Self, messages))

TrainVectorizer == tpc = "vectorizer" /\ TrainerTakes(train_vectorizer(Self, tloc))

TrainScaler == tpc = "scaler" /\ TrainerTakes(train_scaler(Self, tloc))

TrainForest == tpc = "forest" /\ TrainerTakes(train_forest(Self, tloc))

TrainFlag == tpc = "flag" /\ TrainerTakes(train_flag(Self, tloc))

InferenceTakes(f) ==
  /\ dpc' = f.pc
  /\ dloc' = f.loc
  /\ dout' = f.out
  /\ UNCHANGED <<is_trained, vectorizer, scaler, isolation_forest, ever_trained,
                 trained_schema, call, tpc, tloc, tout, scorers>>

DetectCall ==
  /\ dpc = "idle"
  /\ dpre' = [ever_trained |-> ever_trained, consistent |-> Consistent(Self)]
  /\ \E messages \in ThreadDetectInputs : InferenceTakes(detect_call(Self, messages))

DetectScale == dpc = "scale" /\ InferenceTakes(detect_scale(Self, dloc)) /\ UNCHANGED dpre

DetectScore == dpc = "score" /\ InferenceTakes(detect_score(Self, dloc)) /\ UNCHANGED dpre

DetectPredict ==
  dpc = "predict" /\ InferenceTakes(detect_predict(Self, dloc)) /\ UNCHANGED dpre

NextThreads ==
  \/ TrainCall
  \/ TrainVectorizer
  \/ TrainScaler
  \/ TrainForest
  \/ TrainFlag
  \/ DetectCall
  \/ DetectScale
  \/ DetectScore
  \/ DetectPredict

SpecThreads == Init /\ [][NextThreads]_vars

(***************************************************************************)
(* SpecFeatures: extract_features applied to every table of at most        *)
(* MaxRows messages.                                                       *)
(***************************************************************************)
FeatureInputs == UNION {[1..n -> Messages] : n \in 0..MaxRows}

InitFeatures ==
  /\ InitDetector
  /\ \E messages \in FeatureInputs :
       call = [op |-> "pending", fn |-> "extract_features", messages |-> messages]

ExtractFeatures ==
  /\ call.op = "pending"
  /\ call.fn = "extract_features"
  /\ call' = [op |-> "extract_features", messages |-> call.messages,
              out |-> extract_features(call.messages)]
  /\ UNCHANGED <<is_trained, vectorizer, scaler, isolation_forest, ever_trained,
                 trained_schema, threads>>

NextFeatures == ExtractFeatures

SpecFeatures == InitFeatures /\ [][NextFeatures]_vars

(***************************************************************************)
(* SpecRules: the rule analyzer applied to every text of at most MaxWords  *)
(* words of the vocabulary.                                                *)
(***************************************************************************)
RuleWords ==
  { "hurry", "HURRY", "whatsapp", "act", "now", "risk", "free",
    "miracle", "cure", "special", "price", "aspirin", "\n" }

Texts == UNION {[1..n -> RuleWords] : n \in 0..MaxWords}

\* who calls, and when: the channel left out at one time, given at another
Callers == {<<"None", "2024-01-01T12:00:00">>, <<"@a", "2024-01-02T08:30:00">>}

InitRules ==
  /\ InitDetector
  /\ \E text \in Texts, caller \in Callers :
       call = [op |-> "pending", fn |-> "risk", text |-> text, channel |-> caller[1],
               now |-> caller[2]]

CalculateRiskScore ==
  /\ call.op = "pending"
  /\ call.fn = "risk"
  /\ call' = [op |-> "calculate_risk_score", text |-> call.text,
              out |-> calculate_risk_score(call.text)]
  /\ UNCHANGED <<is_trained, vectorizer, scaler, isolation_forest, ever_trained,
                 trained_schema, threads>>

AnalyzePending ==
  /\ call.op = "pending"
  /\ call.fn = "risk"
  /\ call' = [op |-> "analyze_message", text |-> call.text, channel |-> call.channel,
              pre |-> Self, out |-> analyze_message(call.text, call.channel, call.now)]
  /\ UNCHANGED <<is_trained, vectorizer, scaler, isolation_forest, ever_trained,
                 trained_schema, threads>>

NextRules ==
  \/ CalculateRiskScore
  \/ AnalyzePending

SpecRules == InitRules /\ [][NextRules]_vars

(***************************************************************************)
(* SpecText: the functions of a single text (_identify_patterns, the       *)
(* features of a one-message table, calculate_risk_score) applied to every *)
(* text of at most MaxWords words of a vocabulary that reaches the pattern *)
(* tables of both classes and the product list.                            *)
(***************************************************************************)
TextWords ==
  { "urgent", "URGENT", "hurry", "act", "now", "whatsapp", "risk", "free",
    "miracle", "cure", "Aspirin", "drugstore", "pills" }

PatternTexts == UNION {[1..n -> TextWords] : n \in 0..MaxWords}

InitText ==
  /\ InitDetector
  /\ \E text \in PatternTexts :
       call = [op |-> "pending", fn |-> "risk", text |-> text, channel |-> "None",
               now |-> "2024-01-01T12:00:00"]

IdentifyPatterns ==
  /\ call.op = "pending"
  /\ call' = [op |-> "_identify_patterns", text |-> call.text,
              out |-> identify_patterns(call.text)]
  /\ UNCHANGED <<is_trained, vectorizer, scaler, isolation_forest, ever_trained,
                 trained_schema, threads>>

\* extract_features([{'text': text}])
TextFeatures ==
  /\ call.op = "pending"
  /\ LET msg == [text |-> call.text]
     IN call' = [op |-> "extract_features", messages |-> <<msg>>,
                 out |-> DataFrame(<<feature_dict(msg)>>)]
  /\ UNCHANGED <<is_trained, vectorizer, scaler, isolation_forest, ever_trained,
                 trained_schema, threads>>

NextText ==
  \/ IdentifyPatterns
  \/ TextFeatures
  \/ CalculateRiskScore

SpecText == InitText /\ [][NextText]_vars

(***************************************************************************)
(* SpecChannels: analyze_channel_behavior applied to a dict of channels,   *)
(* on the detector as constructed or after one call of train.              *)
(***************************************************************************)
\* n messages that repeat the given ones in turn
Cycle(pattern, n) == [i \in 1..n |-> pattern[((i - 1) % Len(pattern)) + 1]]

ChannelPatterns ==
  { <<MsgA>>,
    <<MsgF, MsgE, MsgA, MsgB, MsgA>>,
    <<MsgB, MsgA, MsgE, MsgA, MsgA, MsgF>>,
    <<MsgA, MsgA, MsgA, MsgA, MsgC>> }

ChannelLengths == {0} \cup ((MinChannel - 1)..(MinChannel + ExtraChannel))

ChannelBatches == {Cycle(p, n) : p \in ChannelPatterns, n \in ChannelLengths}

\* the dicts given to analyze_channel_behavior: no, one or two channels
ChannelInputs ==
  {<<>>}
    \cup {<< <<"@a", a>> >> : a \in ChannelBatches}
    \cup {<< <<"@a", a>>, <<"@b", b>> >> : a \in ChannelBatches, b \in ChannelBatches}

\* the batches the detector is trained on before the channels are analyzed
ChannelTrainInputs ==
  { Batch(MinTrain, MsgA, MsgB),
    Cycle(<<MsgA, MsgA, MsgE, MsgA, MsgB, MsgA>>, MinTrain + 2),
    Batch(MinTrain, MsgC, MsgC),
    Batch(MinTrain, MsgA, MsgC),
    Batch(MinTrain - 1, MsgA, MsgB) }

InitChannels ==
  /\ InitDetector
  /\ \E messages \in ChannelTrainInputs, channel_messages \in ChannelInputs :
       call = [op |-> "pending", fn |-> "channels", after |-> "init",
               messages |-> messages, channel_messages |-> channel_messages]

TrainFirst ==
  /\ call.op = "pending"
  /\ call.fn = "channels"
  /\ call.after = "init"
  /\ LET f == train(Self, call.messages)
     IN /\ SelfBecomes(f.self)
        /\ ever_trained' = (ever_trained \/ f.out = "ok")
        /\ trained_schema' = IF f.out = "ok"
                              THEN extract_features(call.messages).columns
                              ELSE trained_schema
  /\ call' = [call EXCEPT !.after = "train"]
  /\ UNCHANGED threads

AnalyzeChannelBehavior ==
  /\ call.op = "pending"
  /\ call.fn = "channels"
  /\ call' = [op |-> "analyze_channel_behavior",
              channel_messages |-> call.channel_messages, pre |-> Self,
              out |-> analyze_channel_behavior(Self, call.channel_messages)]
  /\ UNCHANGED <<is_trained, vectorizer, scaler, isolation_forest, ever_trained,
                 trained_schema, threads>>

NextChannels ==
  \/ TrainFirst
  \/ AnalyzeChannelBehavior

SpecChannels == InitChannels /\ [][NextChannels]_vars

(***************************************************************************)
(* The endpoints over the stored data (api/endpoints/risk.py).  data/raw   *)
(* is a sequence of files in the order os.listdir gives them; a file is    *)
(* the list json.load returns, a record a dict that may lack keys.  An     *)
(* exception inside the 'try' of a file ends that file ('continue'): what  *)
(* was accumulated from its records so far stays.                          *)
(***************************************************************************)
HighRisk == 7

StoredHigh == [id |-> 301, text |-> <<"guaranteed", "return">>, channel |-> "@a",
               date |-> Monday12]
StoredMid == [id |-> 302, text |-> <<"whatsapp">>, channel |-> "@b",
              date |-> Saturday23]
StoredTop == [id |-> 303, text |-> <<"miracle", "cure", "hurry">>, channel |-> "@a",
              date |-> Sunday0]
StoredLow == [id |-> 304, text |-> <<"hello", "aspirin">>, channel |-> "@b",
              date |-> Monday12]
\* a record without 'text'
StoredNoText == [id |-> 305, channel |-> "@a", date |-> Monday12]
\* a record without 'date'
StoredNoDate == [id |-> 306, text |-> <<"risk", "free">>, channel |-> "@b"]

\* the keys the loop of get_risky_messages reads before it scores
risky_keys_missing(msg) == "text" \notin DOMAIN msg \/ "channel" \notin DOMAIN msg

\* MessageAnalysis(id=msg['id'], ..., date=datetime.fromisoformat(...)) raises
message_analysis_raises(msg) ==
  \/ "id" \notin DOMAIN msg
  \/ "date" \notin DOMAIN msg
  \/ ~msg.date.iso

\* the texts of the model are shorter than 200 characters: text is kept whole
MessageAnalysis(msg, analysis) ==
  [id |-> msg.id, text |-> msg.text, channel |-> msg.channel, date |-> msg.date,
   risk_score |-> analysis.risk_score,
   detected_products |-> analysis.detected_products,
   risk_factors |-> analysis.risk_factors]

\* the loop over the records of one file, from record k on
RECURSIVE RiskyFromFile(_, _, _, _)
RiskyFromFile(messages, k, risky_messages, min_risk_score) ==
  IF k > Len(messages) THEN risky_messages
  ELSE LET msg == messages[k]
       IN IF risky_keys_missing(msg) THEN risky_messages
          ELSE LET analysis == analyze_message(msg.text, msg.channel,
                                               "2024-01-01T12:00:00")
               IN IF analysis.risk_score >= min_risk_score
                  THEN IF message_analysis_raises(msg) THEN risky_messages
                       ELSE RiskyFromFile(messages, k + 1,
                              Append(risky_messages, MessageAnalysis(msg, analysis)),
                              min_risk_score)
                  ELSE RiskyFromFile(messages, k + 1, risky_messages, min_risk_score)

\* the loop over the files, from file f on
RECURSIVE RiskyFromFiles(_, _, _, _)
RiskyFromFiles(files, f, risky_messages, min_risk_score) ==
  IF f > Len(files) THEN risky_messages
  ELSE RiskyFromFiles(files, f + 1,
         RiskyFromFile(files[f], 1, risky_messages, min_risk_score), min_risk_score)

\* list.sort(key=risk_score, reverse=True) is stable: messages of equal
\* score keep the order they were appended in
RECURSIVE InsertByRisk(_, _)
InsertByRisk(x, sorted) ==
  IF sorted = <<>> THEN <<x>>
  ELSE IF x.risk_score > Head(sorted).risk_score THEN <<x>> \o sorted
  ELSE <<Head(sorted)>> \o InsertByRisk(x, Tail(sorted))

RECURSIVE SortByRisk(_, _)
SortByRisk(items, n) ==
  IF n = 0 THEN <<>> ELSE InsertByRisk(items[n], SortByRisk(items, n - 1))

\* s[:limit]: a negative limit counts from the end
slice_to(s, limit) ==
  IF limit >= 0 THEN Take(s, limit)
  ELSE SubSeq(s, 1, IF Len(s) + limit > 0 THEN Len(s) + limit ELSE 0)

get_risky_messages(files, limit, min_risk_score) ==
  LET risky_messages == RiskyFromFiles(files, 1, <<>>, min_risk_score)
  IN slice_to(SortByRisk(risky_messages, Len(risky_messages)), limit)

\* the entry of a channel seen for the first time; avg_risk_score is kept
\* as the quotient num/den
new_channel == [total_messages |-> 0, high_risk_messages |-> 0,
                avg_risk_score |-> [num |-> 0, den |-> 1]]

\* (current_avg * (total_msgs - 1) + risk_score) / total_msgs
running_average(current_avg, total_msgs, risk_score) ==
  [num |-> current_avg.num * (total_msgs - 1) + risk_score * current_avg.den,
   den |-> current_avg.den * total_msgs]

\* the loop over the records of one file, from record k on: the entry is
\* created and total_messages is incremented before msg['text'] is read
RECURSIVE StatsFromFile(_, _, _)
StatsFromFile(messages, k, channel_stats) ==
  IF k > Len(messages) THEN channel_stats
  ELSE LET msg == messages[k]
       IN IF "channel" \notin DOMAIN msg THEN channel_stats
          ELSE LET channel == msg.channel
                   entry == IF channel \in DOMAIN channel_stats
                            THEN channel_stats[channel] ELSE new_channel
                   counted == [entry EXCEPT !.total_messages = @ + 1]
               IN IF "text" \notin DOMAIN msg
                  THEN (channel :> counted) @@ channel_stats
                  ELSE LET analysis == analyze_message(msg.text, "None",
                                                       "2024-01-01T12:00:00")
                           scored ==
                             [counted EXCEPT
                                !.high_risk_messages =
                                   IF analysis.risk_score >= HighRisk THEN @ + 1 ELSE @,
                                !.avg_risk_score =
                                   running_average(@, counted.total_messages,
                                                   analysis.risk_score)]
                       IN StatsFromFile(messages, k + 1,
                                        (channel :> scored) @@ channel_stats)

RECURSIVE StatsFromFiles(_, _, _)
StatsFromFiles(files, f, channel_stats) ==
  IF f > Len(files) THEN channel_stats
  ELSE StatsFromFiles(files, f + 1, StatsFromFile(files[f], 1, channel_stats))

get_channel_statistics(files) == StatsFromFiles(files, 1, <<>>)

(***************************************************************************)
(* SpecStore: the stored files are drawn first; then one of the two        *)
(* endpoints answers a request over them.                                  *)
(***************************************************************************)
StoredRecords == {StoredHigh, StoredMid, StoredTop, StoredLow, StoredNoText,
                  StoredNoDate}

StoredFiles ==
  UNION {[1..n -> StoredRecords] : n \in 0..MaxRecords}

LaterFiles == {<<>>, <<StoredHigh, StoredMid>>, <<StoredTop>>}

Limits == (0 - 1)..MaxLimit

Thresholds == {5, 8}

InitStore ==
  /\ InitDetector
  /\ \E first \in StoredFiles, later \in LaterFiles :
       call = [op |-> "pending", fn |-> "store", files |-> <<first, later>>]

GetRiskyMessages ==
  /\ call.op = "pending"
  /\ call.fn = "store"
  /\ \E limit \in Limits, min_risk_score \in Thresholds :
       call' = [op |-> "risky_messages", files |-> call.files, limit |-> limit,
                min_risk_score |-> min_risk_score,
                out |-> get_risky_messages(call.files, limit, min_risk_score)]
  /\ UNCHANGED <<is_trained, vectorizer, scaler, isolation_forest, ever_trained,
                 trained_schema, threads>>

GetChannelStatistics ==
  /\ call.op = "pending"
  /\ call.fn = "store"
  /\ call' = [op |-> "channel_stats", files |-> call.files,
              out |-> get_channel_statistics(call.files)]
  /\ UNCHANGED <<is_trained, vectorizer, scaler, isolation_forest, ever_trained,
                 trained_schema, threads>>

NextStore ==
  \/ GetRiskyMessages
  \/ GetChannelStatistics

SpecStore == InitStore /\ [][NextStore]_vars

(***************************************************************************)
(* SpecScoring: the detector is trained once; then the scoring threads     *)
(* call detect_anomalies again and again, statement by statement and       *)
(* interleaved, and the rule analyzer is called beside them.  No train     *)
(* call runs while they score.  call.first keeps, for each input, the      *)
(* outcome of the first call that returned for it.                         *)
(***************************************************************************)
ScoringInputs == {<<MsgA, MsgB>>, <<MsgB, MsgE, MsgA>>, <<MsgC>>}

InitScoring ==
  /\ InitDetector
  /\ \E messages \in ThreadTrainInputs :
       call = [op |-> "pending", fn |-> "scoring", messages |-> messages]

TrainOnce ==
  /\ call.op = "pending"
  /\ call.fn = "scoring"
  /\ LET f == train(Self, call.messages)
     IN /\ SelfBecomes(f.self)
        /\ ever_trained' = (ever_trained \/ f.out = "ok")
        /\ trained_schema' = IF f.out = "ok"
                              THEN extract_features(call.messages).columns
                              ELSE trained_schema
        /\ call' = [op |-> "scoring", model |-> f.self, first |-> <<>>,
                    analysis |-> <<>>]
  /\ UNCHANGED threads

\* the scoring thread t has run a statement and is left in frame f
ScorerTakes(t, f, pre, pc, loc) ==
  /\ scorers' = [scorers EXCEPT ![t] = [pc |-> f.pc, loc |-> f.loc, out |-> f.out,
                                         pre |-> pre]]
  /\ SelfBecomes(detect_writes(pc, Self, loc))
  /\ call' = IF f.pc = "idle" /\ pre.messages \notin DOMAIN call.first
             THEN [call EXCEPT !.first = (pre.messages :> f.out) @@ @]
             ELSE call
  /\ UNCHANGED <<ever_trained, trained_schema, tpc, tloc, tout, dpc, dloc, dout, dpre>>

ScorerCalls ==
  /\ call.op = "scoring"
  /\ \E t \in ScorerIds, messages \in ScoringInputs :
       /\ scorers[t].pc = "idle"
       /\ ScorerTakes(t, detect_call(Self, messages),
                      [messages |-> messages, self |-> Self], "call", NoLocals)

ScorerSteps ==
  /\ call.op = "scoring"
  /\ \E t \in ScorerIds :
       /\ scorers[t].pc # "idle"
       /\ ScorerTakes(t, detect_step(scorers[t].pc, Self, scorers[t].loc),
                      scorers[t].pre, scorers[t].pc, scorers[t].loc)

\* risk_analyzer.analyze_message called while the threads score
RuleCall ==
  /\ call.op = "scoring"
  /\ \E text \in SomeTexts :
       call' = [call EXCEPT !.analysis =
                  <<text, analyze_message(text, "None", "2024-01-01T12:00:00")>>]
  /\ UNCHANGED <<is_trained, vectorizer, scaler, isolation_forest, ever_trained,
                 trained_schema, threads>>

NextScoring ==
  \/ TrainOnce
  \/ ScorerCalls
  \/ ScorerSteps
  \/ RuleCall

SpecScoring == InitScoring /\ [][NextScoring]_vars

(***************************************************************************)
(* SpecLevels: the two level functions applied to every score of           *)
(* -MaxScore .. MaxScore tenths.                                           *)
(***************************************************************************)
Scores == (0 - MaxScore)..MaxScore

InitLevels ==
  /\ InitDetector
  /\ \E score \in Scores : call = [op |-> "pending", fn |-> "level", score |-> score]

GetRiskLevel ==
  /\ call.op = "pending"
  /\ call.fn = "level"
  /\ call' = [op |-> "get_risk_level", score |-> call.score,
              out |-> get_risk_level(call.score)]
  /\ UNCHANGED <<is_trained, vectorizer, scaler, isolation_forest, ever_trained,
                 trained_schema, threads>>

AnomalyRiskLevel ==
  /\ call.op = "pending"
  /\ call.fn = "level"
  /\ call' = [op |-> "_get_risk_level", score |-> call.score,
              out |-> anomaly_risk_level(call.score)]
  /\ UNCHANGED <<is_trained, vectorizer, scaler, isolation_forest, ever_trained,
                 trained_schema, threads>>

NextLevels ==
  \/ GetRiskLevel
  \/ AnomalyRiskLevel

SpecLevels == InitLevels /\ [][NextLevels]_vars

(***************************************************************************)
(* Properties.                                                             *)
(***************************************************************************)
TrainReturned == call.op = "train"
DetectReturned == call.op = "detect_anomalies"

\* C1: a train call with fewer than 10 messages fails with the
\* insufficient-data error and changes no field of the detector: a detector
\* untrained before it is untrained after it, with its scaler and forest
\* as they were.
C1_TooFewMessagesRejected ==
  (TrainReturned /\ Len(call.messages) < MinTrain) =>
    /\ call.out = "InsufficientData"
    /\ Self = call.pre
    /\ (~call.pre.is_trained => ~is_trained)

C1_Witness ==
  /\ TrainReturned
  /\ Len(call.messages) = MinTrain - 1
  /\ call.out = "InsufficientData"
  /\ ~is_trained

\* C2: as long as no train call has succeeded, detect_anomalies fails with
\* the not-trained error and returns no result, whatever it is given and
\* whatever train calls failed before.
C2_DetectBeforeTraining ==
  (DetectReturned /\ ~call.ever_trained) =>
    /\ call.out.status = "NotTrained"
    /\ call.out.results = <<>>

\* a train call failed after fitting the scaler, then detect_anomalies ran
C2_Witness ==
  /\ DetectReturned
  /\ ~call.ever_trained
  /\ scaler.fitted
  /\ call.messages # <<>>
  /\ call.out.status = "NotTrained"

\* every message carries a text with a word and a 'date'
WellFormed(messages) ==
  \A i \in 1..Len(messages) :
    /\ "text" \in DOMAIN messages[i]
    /\ messages[i].text # <<>>
    /\ "date" \in DOMAIN messages[i]

\* C3: a train call with at least 10 well-formed messages succeeds and
\* leaves the detector trained, its scaler and forest fitted on that batch;
\* is_trained is set last (a call that fails leaves the flag as it was, and
\* a set flag means a fitted scaler and forest); once a train call has
\* succeeded, detect_anomalies no longer fails as not trained.
C3_TrainingSucceeds ==
  /\ (TrainReturned /\ Len(call.messages) >= MinTrain /\ WellFormed(call.messages)) =>
       /\ call.out = "ok"
       /\ is_trained
       /\ Consistent(Self)
       /\ scaler.feature_names = BaseColumns \o TimeColumns
       /\ isolation_forest.n = Len(call.messages)
  /\ (TrainReturned /\ call.out # "ok") => (is_trained = call.pre.is_trained)
  /\ is_trained => (scaler.fitted /\ isolation_forest.fitted /\ ever_trained)
  /\ (DetectReturned /\ call.ever_trained) => call.out.status # "NotTrained"

C3_Witness ==
  /\ TrainReturned
  /\ Len(call.messages) > MinTrain
  /\ WellFormed(call.messages)
  /\ ~call.pre.is_trained
  /\ is_trained
  /\ call.out = "ok"

\* C4 (as claimed): whenever a train call fails, at whatever statement, the
\* trained flag, the scaler and the forest are exactly what they were
\* before the call.
C4_FailedTrainChangesNothing ==
  (TrainReturned /\ call.out # "ok") =>
    /\ is_trained = call.pre.is_trained
    /\ scaler = call.pre.scaler
    /\ isolation_forest = call.pre.isolation_forest

\* C5 (as claimed): a detect_anomalies call made on a detector whose scaler
\* and forest come from one fit, while train runs in the other thread,
\* normalises, scores and labels with a scaler and a forest of one fit.
C5_OneFitPerInference ==
  (dout.status = "ok" /\ dpre.consistent) =>
    /\ dout.scaled_by = dout.scored_by
    /\ dout.scored_by = dout.labelled_by

\* the results detect_anomalies builds, message by message, before it sorts
UnsortedResults ==
  LET X == scaler_transform(scaler, extract_features(call.messages))
  IN build_results(call.messages, decision_function(isolation_forest, X),
                   predict(isolation_forest, X))

Orderings(n) == {f \in [1..n -> 1..n] : \A i, j \in 1..n : i # j => f[i] # f[j]}

\* C6 (as claimed): the i-th result of detect_anomalies is the result of
\* the i-th message.
C6_InputOrderPreserved ==
  (DetectReturned /\ call.out.status = "ok") =>
    \A i \in 1..Len(call.messages) :
      /\ i <= Len(call.out.results)
      /\ call.out.results[i].message_id = Get(call.messages[i], "id", i - 1)
      /\ call.out.results[i].text = Get(call.messages[i], "text", <<>>)

\* C6 (amended): detect_anomalies returns one result per message, in
\* ascending order of anomaly_score, results of equal score in input order.
C6_SortedByScore ==
  (DetectReturned /\ call.out.status = "ok") =>
    LET results == call.out.results
        n == Len(call.messages)
    IN /\ Len(results) = n
       /\ \A j, k \in 1..n :
            j < k => results[j].anomaly_score <= results[k].anomaly_score
       /\ \E p \in Orderings(n) :
            /\ \A j \in 1..n : results[j] = UnsortedResults[p[j]]
            /\ \A j, k \in 1..n :
                 (j < k /\ results[j].anomaly_score = results[k].anomaly_score)
                   => p[j] < p[k]

\* the first result is not the first message's
C6_Witness ==
  /\ DetectReturned
  /\ call.out.status = "ok"
  /\ Len(call.messages) = 3
  /\ call.out.results[1].message_id # Get(call.messages[1], "id", 0)
  /\ call.out.results[2].anomaly_score = call.out.results[3].anomaly_score

\* C7 (as claimed): in the table extract_features returns, the row of a
\* message without a timestamp, or with one that does not parse, has hour
\* 12, day_of_week 1 and is_weekend 0; the row of a message whose timestamp
\* parses has its hour, its weekday, and is_weekend 1 exactly on weekdays 5
\* and 6.
C7_TimestampDefaults ==
  call.op = "extract_features" =>
    \A i \in 1..Len(call.messages) :
      LET msg == call.messages[i]
          row == call.out.rows[i]
      IN IF "date" \in DOMAIN msg /\ msg.date.iso
         THEN /\ Get(row, "hour", NaN) = msg.date.hour
              /\ Get(row, "day_of_week", NaN) = weekday(msg.date)
              /\ Get(row, "is_weekend", NaN) =
                   (IF weekday(msg.date) \in {5, 6} THEN 1 ELSE 0)
         ELSE /\ Get(row, "hour", NaN) = 12
              /\ Get(row, "day_of_week", NaN) = 1
              /\ Get(row, "is_weekend", NaN) = 0

\* C8: on a trained detector, detect_anomalies given messages whose feature
\* table has other columns than the table the detector was last trained on
\* fails in the estimators' input validation and returns no result.
C8_SchemaMismatchRejected ==
  (DetectReturned /\ is_trained
     /\ extract_features(call.messages).columns # trained_schema) =>
    /\ call.out.status \in {"SchemaMismatch", "NaNInput"}
    /\ call.out.results = <<>>

\* trained with the time columns, asked about messages without a 'date'
C8_Witness ==
  /\ DetectReturned
  /\ is_trained
  /\ trained_schema = BaseColumns \o TimeColumns
  /\ call.messages # <<>>
  /\ extract_features(call.messages).columns = BaseColumns
  /\ call.out.status = "SchemaMismatch"

AnomalyFields == {"anomaly_score", "is_anomaly", "anomaly_risk_level"}

RuleFields ==
  {"risk_score", "risk_level", "detected_products", "risk_factors", "confidence",
   "channel", "analyzed_at"}

\* C9 (as claimed): the analysis of a message holds the anomaly fields
\* exactly when the detector is trained.
C9_AnomalyFieldsWhenTrained ==
  call.op = "analyze_message" =>
    /\ RuleFields \subseteq DOMAIN call.out
    /\ is_trained <=> (AnomalyFields \subseteq DOMAIN call.out)

\* C9 (amended): analyze_message returns the rule-based result, and only
\* it, whether or not the detector is trained: it never fails, never holds
\* an anomaly field, and leaves the detector as it was.
C9_RuleResultOnly ==
  call.op = "analyze_message" =>
    /\ DOMAIN call.out = RuleFields
    /\ AnomalyFields \cap DOMAIN call.out = {}
    /\ call.out.risk_level \in {"LOW", "MEDIUM", "HIGH"}
    /\ call.out.channel = call.channel
    /\ Self = call.pre

C9_Witness ==
  /\ call.op = "analyze_message"
  /\ is_trained
  /\ call.out.risk_score > 0

\* the categories with a pattern that matches the lower-cased text
MatchedCategories(text) ==
  {c \in Range(risk_categories) :
     \E j \in 1..Len(risk_patterns[c].patterns) :
       search_pattern(risk_patterns[c].patterns[j], LowerText(text))}

RECURSIVE WeightOf(_)
WeightOf(cs) ==
  IF cs = {} THEN 0
  ELSE LET c == CHOOSE c \in cs : TRUE
       IN risk_patterns[c].weight + WeightOf(cs \ {c})

\* C10: calculate_risk_score returns min(1.0, the sum of the weights of the
\* categories with a matching pattern), weights 0.8, 0.6, 0.7, 0.5 and 0.4;
\* the score is in [0, 1], and a text that matches nothing scores 0.0 with
\* no risk factor.
C10_ScoreIsClippedWeightSum ==
  call.op = "calculate_risk_score" =>
    LET matched == MatchedCategories(call.text)
    IN /\ call.out.risk_score = Min2(10, WeightOf(matched))
       /\ call.out.risk_score \in 0..10
       /\ Len(call.out.risk_factors) = Cardinality(matched)
       /\ matched = {} => (call.out.risk_score = 0 /\ call.out.risk_factors = <<>>)
       /\ [c \in Range(risk_categories) |-> risk_patterns[c].weight] =
            [guaranteed_returns |-> 8, urgency_pressure |-> 6,
             unrealistic_claims |-> 7, contact_requests |-> 5,
             price_manipulation |-> 4]

\* two categories whose weights add up to more than 1.0
C10_Witness ==
  /\ call.op = "calculate_risk_score"
  /\ WeightOf(MatchedCategories(call.text)) > 10
  /\ call.out.risk_score = 10

\* the categories of the detector with a pattern that occurs in the
\* lower-cased text
MatchedSuspicious(text) ==
  {c \in Range(suspicious_categories) :
     \E j \in 1..Len(suspicious_patterns[c]) :
       search_literal(suspicious_patterns[c][j], LowerText(text))}

\* the position of x in the sequence s
IndexIn(s, x) == CHOOSE i \in 1..Len(s) : s[i] = x

\* listed holds each element of chosen once, in the order of registry
ListsOnceInOrder(listed, registry, chosen) ==
  /\ Range(listed) = chosen
  /\ Len(listed) = Cardinality(chosen)
  /\ \A i, j \in 1..Len(listed) :
       i < j => IndexIn(registry, listed[i]) < IndexIn(registry, listed[j])

\* C11: however many patterns of a category match, risk_factors of
\* calculate_risk_score and the list of _identify_patterns hold each
\* matched category exactly once, in the order of the pattern table.
C11_CategoryListedOnce ==
  /\ call.op = "_identify_patterns" =>
       ListsOnceInOrder(call.out, suspicious_categories, MatchedSuspicious(call.text))
  /\ call.op = "calculate_risk_score" =>
       ListsOnceInOrder(call.out.risk_factors,
                        [k \in 1..Len(risk_categories) |-> Title(risk_categories[k])],
                        {Title(c) : c \in MatchedCategories(call.text)})

\* two patterns of 'urgency' match
C11_Witness ==
  /\ call.op = "_identify_patterns"
  /\ search_literal(<<"urgent">>, LowerText(call.text))
  /\ search_literal(<<"act", "now">>, LowerText(call.text))
  /\ call.out = <<"urgency">>

\* f'{category}_score'
ScoreColumn(category) ==
  CASE category = "urgency" -> "urgency_score"
    [] category = "financial_promises" -> "financial_promises_score"
    [] category = "contact_pressure" -> "contact_pressure_score"
    [] category = "medical_claims" -> "medical_claims_score"
    [] category = "price_manipulation" -> "price_manipulation_score"

\* the number of places of the lower-cased text where a pattern of the
\* category occurs, summed over the category's patterns
Occurrences(category, text) ==
  LET ps == suspicious_patterns[category]
      lower == LowerText(text)
  IN SumSeq([k \in 1..Len(ps) |->
               Cardinality({i \in 1..Len(lower) : MatchAt(ps[k], lower, i)})])

\* C12: in the table of extract_features the feature of a category is the
\* number of occurrences of the category's patterns in the lower-cased
\* text, summed over the patterns; it is positive exactly when
\* _identify_patterns lists the category.
C12_FeaturesCountOccurrences ==
  call.op = "extract_features" =>
    \A i \in 1..Len(call.messages) :
      \A c \in Range(suspicious_categories) :
        LET text == Get(call.messages[i], "text", <<>>)
            score == call.out.rows[i][ScoreColumn(c)]
        IN /\ score = Occurrences(c, text)
           /\ score > 0 <=> c \in Range(identify_patterns(text))

\* a feature above 1 for a category that _identify_patterns lists once
C12_Witness ==
  /\ call.op = "extract_features"
  /\ Len(call.messages) = 1
  /\ call.messages[1].text = <<"URGENT", "act", "now">>
  /\ call.out.rows[1].urgency_score = 2
  /\ identify_patterns(call.messages[1].text) = <<"urgency">>

Levels == {"LOW", "MEDIUM", "HIGH"}

\* C13: RiskAnalyzer.get_risk_level gives every score exactly one level:
\* HIGH from 0.7 on, MEDIUM from 0.4 up to but not including 0.7, LOW below
\* 0.4 (scores in tenths).
C13_RuleLevelThresholds ==
  call.op = "get_risk_level" =>
    /\ call.out \in Levels
    /\ call.out = "HIGH" <=> call.score >= 7
    /\ call.out = "MEDIUM" <=> (4 <= call.score /\ call.score < 7)
    /\ call.out = "LOW" <=> call.score < 4

\* the boundary 0.7 is HIGH
C13_Witness ==
  /\ call.op = "get_risk_level"
  /\ call.score = 7
  /\ call.out = "HIGH"

\* C14: AnomalyDetector._get_risk_level gives every score exactly one
\* level: HIGH below -0.2, MEDIUM from -0.2 up to but not including 0, LOW
\* from 0 on (scores in tenths).
C14_AnomalyLevelThresholds ==
  call.op = "_get_risk_level" =>
    /\ call.out \in Levels
    /\ call.out = "HIGH" <=> call.score < 0 - 2
    /\ call.out = "MEDIUM" <=> (0 - 2 <= call.score /\ call.score < 0)
    /\ call.out = "LOW" <=> call.score >= 0

\* the boundary -0.2 is MEDIUM
C14_Witness ==
  /\ call.op = "_get_risk_level"
  /\ call.score = 0 - 2
  /\ call.out = "MEDIUM"

\* C15: analyze_message returns confidence = min(0.9, risk_score + 0.1),
\* which lies in [0.1, 0.9], the risk_level that get_risk_level gives the
\* returned risk_score, the risk_score of calculate_risk_score, and the
\* channel it was given (scores in tenths).
C15_ConfidenceAndLevel ==
  call.op = "analyze_message" =>
    /\ call.out.confidence = Min2(9, call.out.risk_score + 1)
    /\ call.out.confidence \in 1..9
    /\ call.out.risk_level = get_risk_level(call.out.risk_score)
    /\ call.out.risk_score = calculate_risk_score(call.text).risk_score
    /\ call.out.channel = call.channel

\* the cap applies: a score of 1.0 with the channel left out
C15_Witness ==
  /\ call.op = "analyze_message"
  /\ call.channel = "None"
  /\ call.out.risk_score = 10
  /\ call.out.confidence = 9
  /\ call.out.risk_level = "HIGH"

\* the keywords that occur in the lower-cased text
KeywordsOf(text) == UNION {keywords_in(Lower(text[i])) : i \in 1..Len(text)}

\* the words of the text that hold a keyword, in their order
ProductWords(text) == SelectSeq(text, LAMBDA w : keywords_in(Lower(w)) # {})

\* C16: detected_products of calculate_risk_score holds exactly the
\* keywords of medical_products that are substrings of the lower-cased
\* text, each once, in the order of medical_products, and is the same for
\* the text without the words that hold no keyword, whatever categories
\* those words match.
C16_ProductsBySubstring ==
  call.op = "calculate_risk_score" =>
    /\ ListsOnceInOrder(call.out.detected_products, medical_products,
                        KeywordsOf(call.text))
    /\ call.out.detected_products =
         calculate_risk_score(ProductWords(call.text)).detected_products

\* a keyword inside a longer word, one in capitals, and a risk category
C16_Witness ==
  /\ call.op = "calculate_risk_score"
  /\ call.text = <<"drugstore", "hurry", "Aspirin">>
  /\ call.out.detected_products = <<"aspirin", "drug">>
  /\ call.out.risk_factors = <<"Urgency Pressure">>

ChannelsReturned == call.op = "analyze_channel_behavior"

\* the channels of the dict given to analyze_channel_behavior
ChannelKeys == {call.channel_messages[k][1] : k \in 1..Len(call.channel_messages)}

\* the messages the dict holds for a channel
MessagesOf(channel) ==
  LET k == CHOOSE k \in 1..Len(call.channel_messages) :
             call.channel_messages[k][1] = channel
  IN call.channel_messages[k][2]

\* C17 (as claimed): on a trained detector analyze_channel_behavior gives an
\* entry for exactly the channels that have at least 5 messages, with
\* total_messages the number of messages of the channel.
C17_ChannelsWithFiveMessages ==
  (ChannelsReturned /\ is_trained) =>
    /\ DOMAIN call.out.channel_analysis =
         {c \in ChannelKeys : Len(MessagesOf(c)) >= 5}
    /\ \A c \in DOMAIN call.out.channel_analysis :
         call.out.channel_analysis[c].total_messages = Len(MessagesOf(c))

\* the channels analyze_channel_behavior returned an entry for
Included == IF ChannelsReturned THEN DOMAIN call.out.channel_analysis ELSE {}

Entry(c) == call.out.channel_analysis[c]

\* what detect_anomalies returns for the messages of a channel
ResultsOf(c) == detect_anomalies(call.pre, MessagesOf(c)).out.results

\* C18: in every entry analyze_channel_behavior returns, anomalous_messages
\* is the number of the channel's results with is_anomaly set, and
\* anomaly_rate is the quotient anomalous_messages / total_messages.
C18_AnomalyRate ==
  \A c \in Included :
    /\ Entry(c).anomalous_messages =
         Cardinality({i \in 1..Len(ResultsOf(c)) : ResultsOf(c)[i].is_anomaly})
    /\ Entry(c).anomaly_rate.num = Entry(c).anomalous_messages
    /\ Entry(c).anomaly_rate.den = Entry(c).total_messages
    /\ Entry(c).total_messages = Len(ResultsOf(c))
    /\ Entry(c).total_messages >= MinChannel

\* a channel of which some, not all, messages are anomalous, and not all
\* anomalous ones are of level HIGH
C18_Witness ==
  \E c \in Included :
    /\ Entry(c).anomalous_messages > Entry(c).high_risk_messages
    /\ Entry(c).anomalous_messages < Entry(c).total_messages
    /\ Entry(c).high_risk_messages > 0

\* the number of results of the channel that list the category
ResultsListing(c, category) ==
  Cardinality({i \in 1..Len(ResultsOf(c)) :
                 category \in Range(ResultsOf(c)[i].suspicious_patterns)})

\* the categories some result of the channel lists
ListedIn(c) == {category \in Range(suspicious_categories) : ResultsListing(c, category) > 0}

\* category x ranks before category y in the channel: more results list
\* it, or as many and it comes first in suspicious_patterns
RanksBefore(c, x, y) ==
  \/ ResultsListing(c, x) > ResultsListing(c, y)
  \/ /\ ResultsListing(c, x) = ResultsListing(c, y)
     /\ IndexIn(suspicious_categories, x) < IndexIn(suspicious_categories, y)

\* top holds at most 3 pairs (category, count), each with the number of
\* results that list the category, by descending count
TopByCount(c, top) ==
  /\ Len(top) = Min2(TopN, Cardinality(ListedIn(c)))
  /\ \A i \in 1..Len(top) :
       /\ top[i][1] \in ListedIn(c)
       /\ top[i][2] = ResultsListing(c, top[i][1])
  /\ \A i, j \in 1..Len(top) : i < j => top[i][1] # top[j][1] /\ top[i][2] >= top[j][2]
  /\ \A x \in ListedIn(c) :
       (\A i \in 1..Len(top) : top[i][1] # x) =>
         \A i \in 1..Len(top) : top[i][2] >= ResultsListing(c, x)

UnsortedOf(c) ==
  LET X == scaler_transform(call.pre.scaler, extract_features(MessagesOf(c)))
  IN build_results(MessagesOf(c), decision_function(call.pre.isolation_forest, X),
                   predict(call.pre.isolation_forest, X))

\* C20: most_anomalous of every entry holds min(3, total_messages) results
\* of the channel, in ascending order of anomaly_score, and no other result
\* of the channel has a lower anomaly_score than one of them.
C20_MostAnomalousFirst ==
  \A c \in Included :
    LET most == Entry(c).most_anomalous
        all == UnsortedOf(c)
    IN /\ Len(most) = Min2(3, Entry(c).total_messages)
       /\ \A i, j \in 1..Len(most) :
            i < j => most[i].anomaly_score <= most[j].anomaly_score
       /\ \E p \in [1..Len(most) -> 1..Len(all)] :
            /\ \A i, j \in 1..Len(most) : i # j => p[i] # p[j]
            /\ \A i \in 1..Len(most) : most[i] = all[p[i]]
            /\ \A k \in 1..Len(all) :
                 (\A i \in 1..Len(most) : p[i] # k) =>
                   \A i \in 1..Len(most) : most[i].anomaly_score <= all[k].anomaly_score

\* three results of different scores, the first not of the first message,
\* and a result left out
C20_Witness ==
  \E c \in Included :
    LET most == Entry(c).most_anomalous
    IN /\ Len(most) = 3
       /\ most[1].anomaly_score < most[2].anomaly_score
       /\ most[2].anomaly_score < most[3].anomaly_score
       /\ most[1].text # MessagesOf(c)[1].text
       /\ Entry(c).total_messages > 3

\* the scoring thread t has returned from a call
Returned(t) ==
  /\ call.op = "scoring"
  /\ scorers[t].pc = "idle"
  /\ scorers[t].out.status # "none"

\* the scores, labels and levels of an outcome, in the order returned
Verdicts(out) ==
  [i \in 1..Len(out.results) |->
     [message_id |-> out.results[i].message_id,
      anomaly_score |-> out.results[i].anomaly_score,
      is_anomaly |-> out.results[i].is_anomaly,
      risk_level |-> out.results[i].risk_level]]

C22_ScoringReadOnly ==
  call.op = "scoring" =>
    /\ Self = call.model
    /\ \A t \in ScorerIds :
         Returned(t) =>
           scorers[t].out = detect_anomalies(call.model, scorers[t].pre.messages).out

\* one thread has returned scores while the other is between two statements
\* of a call for another input, and the rule analyzer has been called
C22_Witness ==
  /\ Returned(1)
  /\ scorers[1].out.status = "ok"
  /\ scorers[1].pre.messages = <<MsgA, MsgB>>
  /\ scorers[2].pc = "score"
  /\ scorers[2].pre.messages = <<MsgB, MsgE, MsgA>>
  /\ call.analysis # <<>>
  /\ call.analysis[2].risk_score > 0

\* the positions <<file, record>> of the stored messages that hold every key
\* the endpoint reads, with a date that parses, and reach the threshold
ReachThreshold(files, min_risk_score) ==
  {p \in UNION {{<<f, k>> : k \in 1..Len(files[f])} : f \in 1..Len(files)} :
     LET msg == files[p[1]][p[2]]
     IN /\ ~risky_keys_missing(msg)
        /\ ~message_analysis_raises(msg)
        /\ calculate_risk_score(msg.text).risk_score >= min_risk_score}

StoredScore(files, p) == calculate_risk_score(files[p[1]][p[2]].text).risk_score

\* C23: /risky_messages returns at most limit messages, each of risk_score
\* >= min_risk_score, in non-increasing order of risk_score, and they are
\* the top limit of all the stored messages that reach the threshold.
C23_TopRiskyMessages ==
  call.op = "risky_messages" =>
    LET out == call.out
        reach == ReachThreshold(call.files, call.min_risk_score)
    IN /\ Len(out) <= call.limit
       /\ \A i \in 1..Len(out) : out[i].risk_score >= call.min_risk_score
       /\ \A i \in 1..Len(out) : \A j \in i..Len(out) :
            out[i].risk_score >= out[j].risk_score
       /\ Len(out) = Min2(call.limit, Cardinality(reach))
       /\ \A i \in 1..Len(out) :
            Cardinality({j \in 1..Len(out) : out[j].risk_score > out[i].risk_score})
              = Cardinality({p \in reach :
                               StoredScore(call.files, p) > out[i].risk_score})

\* C24: in every entry analyze_channel_behavior returns, high_risk_messages
\* <= anomalous_messages <= total_messages; a result of the channel has
\* is_anomaly set exactly when its anomaly_score is negative, so the results
\* of level HIGH or MEDIUM are anomalous and those of level LOW are not.
C24_HighWithinAnomalous ==
  \A c \in Included :
    /\ Entry(c).high_risk_messages <= Entry(c).anomalous_messages
    /\ Entry(c).anomalous_messages <= Entry(c).total_messages
    /\ \A i \in 1..Len(ResultsOf(c)) :
         LET result == ResultsOf(c)[i]
         IN /\ result.is_anomaly <=> result.anomaly_score < 0
            /\ result.risk_level \in {"HIGH", "MEDIUM"} => result.is_anomaly
            /\ result.risk_level = "LOW" => ~result.is_anomaly

\* a channel with results of level HIGH, of level MEDIUM and of level LOW
C24_Witness ==
  \E c \in Included :
    /\ Entry(c).high_risk_messages > 0
    /\ \E i \in 1..Len(ResultsOf(c)) : ResultsOf(c)[i].risk_level = "MEDIUM"
    /\ \E i \in 1..Len(ResultsOf(c)) : ResultsOf(c)[i].risk_level = "LOW"

\* the categories whose weight alone stays below 0.7
MediumAlone == {"price_manipulation", "contact_requests", "urgency_pressure"}

\* C25: the risk_level analyze_message returns is LOW exactly when no
\* category matches the text, MEDIUM exactly when one category matches and
\* it is price_manipulation, contact_requests or urgency_pressure, and HIGH
\* whenever guaranteed_returns or unrealistic_claims matches or two or more
\* categories match.
C25_LevelByMatchedCategories ==
  call.op = "analyze_message" =>
    LET matched == MatchedCategories(call.text)
        level == call.out.risk_level
    IN /\ level = "LOW" <=> matched = {}
       /\ level = "MEDIUM" <=> (Cardinality(matched) = 1 /\ matched \subseteq MediumAlone)
       /\ ("guaranteed_returns" \in matched \/ "unrealistic_claims" \in matched
             \/ Cardinality(matched) >= 2) => level = "HIGH"

\* the two lightest categories together are HIGH
C25_Witness ==
  /\ call.op = "analyze_message"
  /\ MatchedCategories(call.text) = {"price_manipulation", "contact_requests"}
  /\ call.out.risk_score = 9
  /\ call.out.risk_level = "HIGH"

\* the channels of the dict that are not skipped
Scored == {c \in ChannelKeys : Len(MessagesOf(c)) >= MinChannel}

\* detect_anomalies raises on the messages of the channel
ScoringFails(c) == detect_anomalies(call.pre, MessagesOf(c)).out.status # "ok"

\* C26: on an untrained detector analyze_channel_behavior returns an empty
\* result when every channel has fewer than 5 messages and fails with the
\* not-trained error otherwise; when detect_anomalies fails for some channel
\* the call fails and gives no entry for any channel, the channels scored
\* before the failure included.
C26_FailureLeavesNoSummary ==
  ChannelsReturned =>
    /\ ~call.pre.is_trained =>
         IF Scored = {}
         THEN call.out = [status |-> "ok", channel_analysis |-> <<>>]
         ELSE call.out.status = "NotTrained"
    /\ (\E c \in Scored : ScoringFails(c)) => call.out.status # "ok"
    /\ call.out.status # "ok" => call.out.channel_analysis = <<>>

\* the first channel was scored, the second failed
C26_Witness ==
  /\ ChannelsReturned
  /\ Len(call.channel_messages) = 2
  /\ call.channel_messages[1][1] \in Scored
  /\ ~ScoringFails(call.channel_messages[1][1])
  /\ call.channel_messages[2][1] \in Scored
  /\ ScoringFails(call.channel_messages[2][1])
  /\ call.out.status # "ok"
  /\ call.out.channel_analysis = <<>>

\* the positions <<file, record>> of the records of a channel that
\* analyze_message was called for: the record and every record before it in
\* its file hold 'channel' and 'text'
ScoredOf(files, channel) ==
  {p \in UNION {{<<f, k>> : k \in 1..Len(files[f])} : f \in 1..Len(files)} :
     /\ \A j \in 1..p[2] : {"channel", "text"} \subseteq DOMAIN files[p[1]][j]
     /\ files[p[1]][p[2]].channel = channel}

RECURSIVE SumOfScores(_, _)
SumOfScores(files, positions) ==
  IF positions = {} THEN 0
  ELSE LET p == CHOOSE p \in positions : TRUE
       IN StoredScore(files, p) + SumOfScores(files, positions \ {p})

\* C27: whatever files and records /channel_stats has processed, a file
\* ended early by a malformed record included, every channel's
\* total_messages is the number of its records that were scored,
\* avg_risk_score is the mean of those records' risk scores, and
\* high_risk_messages is the number of them with risk_score >= 0.7, which is
\* at most total_messages.
C27_StatsOfScoredRecords ==
  call.op = "channel_stats" =>
    \A channel \in DOMAIN call.out :
      LET entry == call.out[channel]
          scored == ScoredOf(call.files, channel)
      IN /\ entry.total_messages = Cardinality(scored)
         /\ entry.avg_risk_score.num * Cardinality(scored)
              = SumOfScores(call.files, scored) * entry.avg_risk_score.den
         /\ entry.high_risk_messages =
              Cardinality({p \in scored : StoredScore(call.files, p) >= HighRisk})
         /\ entry.high_risk_messages <= entry.total_messages

====
